---- MODULE Spec2Model ----
(***************************************************************************)
(* BlackMamba (src/blackmamba.js): the registration / build engine and the *)
(* command-dispatch layer, as a state machine.                             *)
(*                                                                         *)
(* Every API call is an async function.  A call runs synchronously up to   *)
(* its first `await`, is suspended there, and is resumed later; between    *)
(* two suspension points its code is atomic.  A call in flight is kept as  *)
(* a stack of frames (one per async function entered and not yet           *)
(* returned); one step of the model runs the top of one call's stack from  *)
(* one suspension point to the next.                                       *)
(***************************************************************************)
EXTENDS Integers, Sequences, FiniteSets, Bags, TLC

(***************************************************************************)
(* JavaScript values.  Every value is a record with a `type` field, so     *)
(* that `typeof` and `===` can be computed.                                *)
(***************************************************************************)
Undefined == [type |-> "undefined", val |-> "undefined"]
Str(s) == [type |-> "string", val |-> s]
Num(s) == [type |-> "number", val |-> s]
\* The errors the code raises are plain `Error` objects told apart by their
\* message, and the engine's native errors.  Err(name) names the error by
\* where it is raised:
\*   ValidationError    isString / hasValue (lines 323, 329)
\*   PackageLoadError   loadPackage's catch (line 128)
\*   SourceImportError  import's catch (line 144)
\*   DescriptorError    register (line 181), #parseDependencies (line 255)
\*   ConstructionError  the factory call in createBuilder's build()
\*   ExecutionError     the TypeError of the call expression app[cmd]( data )
\*                      (line 86)
\*   TypeError, ReferenceError   native errors raised elsewhere
Err(name) == [type |-> "error", val |-> name]
Settings(s) == [type |-> "object", val |-> s]

\* a parameter default: `function f ( x = d )`
Default(v, d) == IF v.type = "undefined" THEN d ELSE v

(***************************************************************************)
(* Bounds of the model.                                                    *)
(***************************************************************************)
\* objects (Builders and modules) created before the callers stop calling
MaxObjs == 4
\* entries in the list handed to run()
MaxRunLen == 2
\* the callers that make their calls concurrently
Callers == {"c1", "c2"}
\* frames on the stack of a call beyond which it is no longer followed
MaxDepth == 8

(***************************************************************************)
(* The external collaborators: the package descriptors the Descriptor      *)
(* Loader can read and the source files the Source Loader can import.      *)
(* They are the fixtures of src/test.js: "greeter" (a module with the      *)
(* command greet), "builder" (a factory whose module returns the message   *)
(* of its settings) and a package built from the Builder of "builder";     *)
(* "shouter" does not exist.  An absent descriptor field is "" (absent and *)
(* "" are both falsy, which is all the code asks of source and builder).   *)
(* Four more descriptors take register through its failing branches:       *)
(* "empty" has neither source nor builder, "withdep" lists the package     *)
(* "greeter" as a dependency, the source of "badsrc" does not exist and    *)
(* the source of "thrower" exports no factory.  Three more have a          *)
(* dependency that cannot be resolved: "depmissing" lists the package      *)
(* "shouter", "noname" lists { pkg: "greeter" } without a name, and        *)
(* "srcdep" lists the source "/missing.js".  Two more name a Builder:       *)
(* "fromB2" names the Builder of "builder", as "fromB" does, with settings *)
(* of its own, and "chain" names "fromB", which has no source itself.      *)
(***************************************************************************)
NoDeps == [packages |-> <<>>, sources |-> <<>>]

Packages ==
  ( "greeter" :> [name |-> "greeter", source |-> "/greeter.js", builder |-> "",
                  factorySettings |-> Undefined, dependencies |-> NoDeps] ) @@
  ( "builder" :> [name |-> "builder", source |-> "/builder.js", builder |-> "",
                  factorySettings |-> Settings("built-in"), dependencies |-> NoDeps] ) @@
  ( "fromB"   :> [name |-> "fromB", source |-> "", builder |-> "builder",
                  factorySettings |-> Settings("I came from a builder"),
                  dependencies |-> NoDeps] ) @@
  ( "empty"   :> [name |-> "empty", source |-> "", builder |-> "",
                  factorySettings |-> Undefined, dependencies |-> NoDeps] ) @@
  ( "withdep" :> [name |-> "withdep", source |-> "/greeter.js", builder |-> "",
                  factorySettings |-> Undefined,
                  dependencies |-> [packages |-> << Str("greeter") >>,
                                    sources |-> <<>>]] ) @@
  ( "badsrc"  :> [name |-> "badsrc", source |-> "/missing.js", builder |-> "",
                  factorySettings |-> Undefined, dependencies |-> NoDeps] ) @@
  ( "thrower" :> [name |-> "thrower", source |-> "/nofactory.js", builder |-> "",
                  factorySettings |-> Undefined, dependencies |-> NoDeps] ) @@
  ( "depmissing" :> [name |-> "depmissing", source |-> "/greeter.js", builder |-> "",
                  factorySettings |-> Undefined,
                  dependencies |-> [packages |-> << Str("shouter") >>,
                                    sources |-> <<>>]] ) @@
  ( "noname"  :> [name |-> "noname", source |-> "/greeter.js", builder |-> "",
                  factorySettings |-> Undefined,
                  dependencies |-> [packages |-> << [type |-> "object",
                                                     pkg |-> Str("greeter"),
                                                     source |-> Undefined,
                                                     name |-> Undefined,
                                                     build |-> Undefined,
                                                     method |-> Undefined] >>,
                                    sources |-> <<>>]] ) @@
  ( "srcdep"  :> [name |-> "srcdep", source |-> "/greeter.js", builder |-> "",
                  factorySettings |-> Undefined,
                  dependencies |-> [packages |-> <<>>,
                                    sources |-> << Str("/missing.js") >>]] ) @@
  ( "fromB2"  :> [name |-> "fromB2", source |-> "", builder |-> "builder",
                  factorySettings |-> Settings("I came second"),
                  dependencies |-> NoDeps] ) @@
  ( "chain"   :> [name |-> "chain", source |-> "", builder |-> "fromB",
                  factorySettings |-> Settings("chained"),
                  dependencies |-> NoDeps] )

SourceFiles ==
  ( "/greeter.js" :> [type |-> "source", factory |-> "greeterFactory"] ) @@
  ( "/builder.js" :> [type |-> "source", factory |-> "messageFactory"] ) @@
  ( "/nofactory.js" :> [type |-> "source", factory |-> "undefined"] )

\* the modules the constructor installs
NativeModules ==
  { "getRootDirectory", "getSourcesDirectory", "getPackagesDirectory",
    "execute", "register", "hasNotModule", "getModule" }

VARIABLES
  modules,      \* #modules  : Map id -> module
  builders,     \* #builders : Map id -> Builder
  packages,     \* #packages : Set of ids whose descriptor has been loaded
  sources,      \* #sources  : Map sourcePath -> imported source
  defaultApp, defaultCmd, defaultData,   \* the default triple
  nextObj,      \* identity of the next object created (Builder or module)
  calls,        \* the API calls in flight, suspended at an await (a bag)
  last,         \* the call that completed last: what was called, its
                \* outcome and what it did to the collaborators
  begun,        \* number of callers that have made their concurrent call
  down          \* the package ids and source paths the loaders cannot read
                \* for now (file missing, network down)

vars == << modules, builders, packages, sources, defaultApp, defaultCmd,
           defaultData, nextObj, calls, last, begun, down >>

\* the instance's tables as one value
Registry == [modules |-> modules, builders |-> builders, packages |-> packages,
             sources |-> sources, nextObj |-> nextObj, down |-> down]


(***************************************************************************)
(* The Builder of createBuilder: a factory and two slots.                  *)
(***************************************************************************)
CreateBuilder(factory, obj) ==
  [type |-> "builder", factory |-> factory, dependencies |-> Undefined,
   settings |-> Undefined, obj |-> obj]

Inject(B, factoryDependencies) == [B EXCEPT !.dependencies = factoryDependencies]

\* a faulty variant: settings once applied are kept
ApplySettingsOnce(B, factorySettings) ==
  [B EXCEPT !.settings = IF @.type = "undefined" THEN factorySettings ELSE @]

ApplySettings(B, factorySettings) == [B EXCEPT !.settings = factorySettings]

\* the factories of the fixture sources are total; a missing factory export
\* makes build() throw "factory is not a function"
FactoryThrows(factory) == factory \notin {"greeterFactory", "messageFactory"}

\* build (): factory( dependencies )( settings ).  The module is the closure
\* over the factory, the dependencies and the settings it was built with;
\* obj is its identity as an object.
Build(B, obj) ==
  IF FactoryThrows(B.factory)
  THEN [ok |-> FALSE, v |-> Err("ConstructionError")]
  ELSE [ok |-> TRUE,
        v |-> [type |-> "module", factory |-> B.factory,
               dependencies |-> B.dependencies, settings |-> B.settings,
               obj |-> obj]]

\* the callable members of a module, among the command names of the model:
\* the greeter module is a frozen object with greet; the module of
\* "builder" is a plain function; the constructor's modules are functions
Commands(app) ==
  IF app.type = "module" /\ app.factory = "greeterFactory" THEN {"greet"} ELSE {}

\* greet ( name ) { return `Hello ${name}`; }
Greet(name) ==
  Str(CASE name = Str("John") -> "Hello John"
        [] name = Str("Nobody") -> "Hello Nobody"
        [] OTHER -> "Hello undefined")

\* a faulty variant: app[cmd]?.( data ): a missing command yields undefined
InvokeOptional(app, cmd, data) ==
  IF cmd.val \in Commands(app)
  THEN [ok |-> TRUE, v |-> Greet(data)]
  ELSE [ok |-> TRUE, v |-> Undefined]

\* app[cmd]( data )
Invoke(app, cmd, data) ==
  IF cmd.val \in Commands(app)
  THEN [ok |-> TRUE, v |-> Greet(data)]
  ELSE [ok |-> FALSE, v |-> Err("ExecutionError")]

\* isString( property, value ) and hasValue( property, value ): TRUE when
\* the check passes, FALSE when it throws
isString(value) == value.type = "string"

\* a faulty variant: the empty string passes
hasValueAlways(value) == TRUE

hasValue(value) == value.val # ""

(***************************************************************************)
(* A call in flight: cfg.m is the registry, cfg.stk the stack of frames,   *)
(* cfg.res the outcome once the stack is empty, cfg.log what the call has  *)
(* done to the collaborators, cfg.yield whether it has reached an await.   *)
(***************************************************************************)
Running == [k |-> "none", v |-> Undefined]

Top(cfg) == cfg.stk[Len(cfg.stk)]

SetTop(cfg, f) == [cfg EXCEPT !.stk = [@ EXCEPT ![Len(@)] = f]]

Log(cfg, e, id) == [cfg EXCEPT !.log = Append(@, <<e, id>>)]

\* `await callee(...)`: the caller goes on at pc once the callee has returned
Await(cfg, pc, callee) ==
  [cfg EXCEPT !.stk = Append([@ EXCEPT ![Len(@)].pc = pc], callee)]

\* `return callee(...)` and `return await callee(...)` outside a try: the
\* caller does nothing more, so the callee takes its place
TailCall(cfg, callee) == SetTop(cfg, callee)

\* the async function on top returns v: to the awaiting caller, which is
\* resumed in a later turn, or to the one who made the call
Return(cfg, v) ==
  LET rest == SubSeq(cfg.stk, 1, Len(cfg.stk) - 1) IN
  IF Len(rest) = 0
  THEN [cfg EXCEPT !.stk = rest, !.res = [k |-> "ok", v |-> v]]
  ELSE [cfg EXCEPT !.stk = [rest EXCEPT ![Len(rest)].ret = v], !.yield = TRUE]

\* a rejection travels up the awaiting callers to the only catch that
\* encloses an await, the one of executeWithFallback
RECURSIVE Unwind(_, _)
Unwind(cfg, e) ==
  IF Len(cfg.stk) = 0
  THEN [cfg EXCEPT !.res = [k |-> "err", v |-> e]]
  ELSE IF Top(cfg).fn = "executeWithFallback" /\ Top(cfg).pc = "try"
       THEN [SetTop(cfg, [Top(cfg) EXCEPT !.pc = "caught"]) EXCEPT !.yield = TRUE]
       ELSE Unwind([cfg EXCEPT !.stk = SubSeq(@, 1, Len(@) - 1)], e)

Throw(cfg, e) == Unwind([cfg EXCEPT !.stk = SubSeq(@, 1, Len(@) - 1)], e)

\* the frames
FRun(list) ==
  [fn |-> "run", pc |-> "loop", list |-> list, i |-> 1, ret |-> Undefined]

FExecute(nextApp, cmd, data) ==
  [fn |-> "execute", pc |-> "start", nextApp |-> nextApp, cmd |-> cmd,
   data |-> data, ret |-> Undefined]

FExecuteWithFallback(nextApp, cmd, data) ==
  [fn |-> "executeWithFallback", pc |-> "start", nextApp |-> nextApp,
   cmd |-> cmd, data |-> data, ret |-> Undefined]

FLoadPackage(path) ==
  [fn |-> "loadPackage", pc |-> "start", path |-> path, ret |-> Undefined]

FImport(sourcePath) ==
  [fn |-> "import", pc |-> "start", sourcePath |-> sourcePath, ret |-> Undefined]

FRegister(id, build) ==
  [fn |-> "register", pc |-> "start", id |-> id, build |-> build,
   pkg |-> Undefined, deps |-> Undefined, ret |-> Undefined]

FCreateModuleFromBuilder(moduleID, builderId, factorySettings) ==
  [fn |-> "createModuleFromBuilder", pc |-> "start", moduleID |-> moduleID,
   builderId |-> builderId, factorySettings |-> factorySettings,
   ret |-> Undefined]

FGetDependencies(dependencies) ==
  [fn |-> "getDependencies", pc |-> "packages", dependencies |-> dependencies,
   i |-> 1, deps |-> [type |-> "object", val |-> "{}"], ret |-> Undefined]

\* Map.has / Set.has with a key of any type: the tables hold strings only
Has(keys, key) == key.type = "string" /\ key.val \in keys

Put(map, k, v) == [x \in DOMAIN map \cup {k} |-> IF x = k THEN v ELSE map[x]]

True == [type |-> "boolean", val |-> "true"]

Truthy(v) ==
  CASE v.type = "undefined" -> FALSE
    [] v.type = "string" -> v.val # ""
    [] v.type = "boolean" -> v.val = "true"
    [] OTHER -> TRUE

\* a || b
Or(a, b) == IF Truthy(a) THEN a ELSE b

(***************************************************************************)
(* async run ( packages = [] )                                             *)
(***************************************************************************)
\* a faulty variant: the loop stops one entry early
RunOverEarly(list, i) == i >= Len(list)

\* for ( const { pkg, cmd, data } of packages ): is the loop over
RunOver(list, i) == i > Len(list)

RunStep(cfg) ==
  LET f == Top(cfg) IN
  IF f.pc = "loop"
  THEN IF RunOver(f.list, f.i)
       THEN Return(cfg, Undefined)
       ELSE Await(cfg, "next",
                  FExecute(f.list[f.i].pkg, f.list[f.i].cmd, f.list[f.i].data))
  ELSE SetTop(cfg, [f EXCEPT !.pc = "loop", !.i = @ + 1])

(***************************************************************************)
(* async execute ( nextApp = "", cmd = "", data )                          *)
(***************************************************************************)
\* a faulty variant: execute registers the Builder only
AutoRegisterBuilderOnly(nextApp) == FRegister(nextApp, FALSE)

\* await this.register( nextApp )
AutoRegister(nextApp) == FRegister(nextApp, TRUE)

ExecuteStep(cfg) ==
  LET f == Top(cfg)
      nextApp == Default(f.nextApp, Str(""))
      cmd == Default(f.cmd, Str(""))
  IN
  IF f.pc = "start"
  THEN IF ~ (isString(nextApp) /\ hasValue(nextApp) /\ isString(cmd) /\ hasValue(cmd))
       THEN Throw(Log(cfg, "execute", nextApp.val), Err("ValidationError"))
       ELSE IF ~ Has(DOMAIN cfg.m.modules, nextApp)
            THEN Await(Log(cfg, "execute", nextApp.val), "app", AutoRegister(nextApp))
            ELSE SetTop(Log(cfg, "execute", nextApp.val), [f EXCEPT !.pc = "app"])
  ELSE IF ~ Has(DOMAIN cfg.m.modules, nextApp)
       THEN Throw(cfg, Err("ExecutionError"))
       ELSE LET r == Invoke(cfg.m.modules[nextApp.val], cmd, f.data) IN
            IF r.ok
            THEN Return(Log(cfg, "command", nextApp.val), r.v)
            ELSE Throw(cfg, r.v)

(***************************************************************************)
(* async executeWithFallback ( nextApp = "", cmd = "", data )              *)
(***************************************************************************)
\* a faulty variant: the catch block keeps the command of the failed call
FallbackKeepsCmd(f) == FExecute(defaultApp, f.cmd, defaultData)

\* a faulty variant: the catch block registers the default app and returns it
FallbackRegisters(f) == FRegister(defaultApp, TRUE)

\* the catch block: the default triple takes the place of the arguments
Fallback(f) == FExecute(defaultApp, defaultCmd, defaultData)

ExecuteWithFallbackStep(cfg) ==
  LET f == Top(cfg)
      nextApp == Default(f.nextApp, Str(""))
      cmd == Default(f.cmd, Str(""))
  IN
  CASE f.pc = "start" ->
         IF ~ Has(DOMAIN cfg.m.modules, nextApp)
         THEN Await(cfg, "try", FRegister(nextApp, TRUE))
         ELSE TailCall(cfg, FExecute(nextApp, cmd, f.data))
    [] f.pc = "try" ->
         TailCall(cfg, FExecute(nextApp, cmd, f.data))
    [] f.pc = "caught" ->
         TailCall(Log(cfg, "fallback", nextApp.val), Fallback(f))

(***************************************************************************)
(* async loadPackage ( path = "" ): the Descriptor Loader                  *)
(***************************************************************************)
\* a faulty variant: the loaded descriptor is not recorded
LoadedUnrecorded(m, path) == m

\* this.#packages.add( path )
Loaded(m, path) == [m EXCEPT !.packages = @ \cup {path}]

LoadPackageStep(cfg) ==
  LET f == Top(cfg)
      path == Default(f.path, Str(""))
  IN
  IF f.pc = "start"
  THEN IF path.type # "string"
       THEN Throw(cfg, Err("TypeError"))           \* path.startsWith
       ELSE [SetTop(Log(cfg, "loadJson", path.val), [f EXCEPT !.pc = "io"])
               EXCEPT !.yield = TRUE]
  ELSE IF path.val \in DOMAIN Packages /\ path.val \notin cfg.m.down
       THEN Return([cfg EXCEPT !.m = Loaded(@, path.val)], Packages[path.val])
       ELSE Throw(cfg, Err("PackageLoadError"))

(***************************************************************************)
(* async import ( sourcePath ): the Source Loader and its cache            *)
(***************************************************************************)
\* a faulty variant: the cache is never consulted
InSourceCacheNever(m, sourcePath) == FALSE

\* this.#sources.has( sourcePath )
InSourceCache(m, sourcePath) == Has(DOMAIN m.sources, sourcePath)

ImportStep(cfg) ==
  LET f == Top(cfg) IN
  IF f.pc = "start"
  THEN IF InSourceCache(cfg.m, f.sourcePath)
       THEN Return(cfg, cfg.m.sources[f.sourcePath.val])
       ELSE [SetTop(Log(cfg, "import", f.sourcePath.val), [f EXCEPT !.pc = "io"])
               EXCEPT !.yield = TRUE]
  ELSE IF f.sourcePath.val \in DOMAIN SourceFiles /\ f.sourcePath.val \notin cfg.m.down
       THEN Return([cfg EXCEPT !.m.sources =
                            Put(@, f.sourcePath.val, SourceFiles[f.sourcePath.val])],
                   SourceFiles[f.sourcePath.val])
       ELSE Throw(cfg, Err("SourceImportError"))

(***************************************************************************)
(* #registerBuilder ( id, factory, factoryDependencies )                   *)
(***************************************************************************)
\* a faulty variant: storing a Builder drops the module built under the id
RegisterBuilderResets(m, id, factory, factoryDependencies) ==
  [m EXCEPT !.builders = Put(@, id, Inject(CreateBuilder(factory, m.nextObj),
                                            factoryDependencies)),
            !.modules = [k \in DOMAIN @ \ {id} |-> @[k]],
            !.nextObj = @ + 1]

\* a faulty variant: a Builder already stored under the id is kept
RegisterBuilderKeeps(m, id, factory, factoryDependencies) ==
  IF id \in DOMAIN m.builders
  THEN m
  ELSE [m EXCEPT !.builders = Put(@, id, Inject(CreateBuilder(factory, m.nextObj),
                                                 factoryDependencies)),
                 !.nextObj = @ + 1]

RegisterBuilder(m, id, factory, factoryDependencies) ==
  [m EXCEPT !.builders = Put(@, id, Inject(CreateBuilder(factory, m.nextObj),
                                            factoryDependencies)),
            !.nextObj = @ + 1]

(***************************************************************************)
(* async register ( id = "", build = true )                                *)
(***************************************************************************)
\* a faulty variant: register never finds what is already registered
RegisteredNever(m, id, build) == Undefined

\* the first lines of register: the module or Builder already registered
Registered(m, id, build) ==
  IF ~ Has(m.packages, id)
  THEN Undefined
  ELSE IF build
       THEN IF id.val \in DOMAIN m.modules THEN m.modules[id.val] ELSE Undefined
       ELSE IF id.val \in DOMAIN m.builders THEN m.builders[id.val] ELSE Undefined

\* a faulty variant: the source path builds whatever the flag
RegisterFromSourceAlwaysBuilds(cfg, id, factory, f) ==
  TailCall([cfg EXCEPT !.m = RegisterBuilder(@, id.val, factory, f.deps)],
           FCreateModuleFromBuilder(id.val, id.val, f.pkg.factorySettings))

\* a faulty variant: the source path stores a module even when it returns
\* the Builder
RegisterFromSourceBuildsToo(cfg, id, factory, f) ==
  LET m1 == RegisterBuilder(cfg.m, id.val, factory, f.deps)
      mod == Build(ApplySettings(m1.builders[id.val], f.pkg.factorySettings),
                   m1.nextObj)
      m2 == [m1 EXCEPT !.modules = Put(@, id.val, mod.v), !.nextObj = @ + 1]
  IN Return([cfg EXCEPT !.m = m2], IF f.build THEN mod.v ELSE m1.builders[id.val])

\* the end of the `if ( source )` block, once the source is imported
RegisterFromSource(cfg, id, factory, f) ==
  LET c2 == [cfg EXCEPT !.m = RegisterBuilder(@, id.val, factory, f.deps)] IN
  IF f.build
  THEN TailCall(c2, FCreateModuleFromBuilder(id.val, id.val, f.pkg.factorySettings))
  ELSE Return(c2, c2.m.builders[id.val])

\* a faulty variant: the builder path returns the referenced Builder when build is false
RegisterFromBuilderRespectsFlag(cfg, id, pkg, build) ==
  IF build
  THEN TailCall(cfg, FCreateModuleFromBuilder(id.val, pkg.builder, pkg.factorySettings))
  ELSE Return(cfg, IF pkg.builder \in DOMAIN cfg.m.builders
                   THEN cfg.m.builders[pkg.builder] ELSE Undefined)

\* a faulty variant: the descriptor is taken to name its own Builder
ReferencedBuilderSelf(pkg) == pkg.name

\* const { builder, ... } = pkg
ReferencedBuilder(pkg) == pkg.builder

\* the `if ( builder )` block
RegisterFromBuilder(cfg, id, pkg, build) ==
  TailCall(cfg, FCreateModuleFromBuilder(id.val, ReferencedBuilder(pkg),
                                         pkg.factorySettings))

\* a faulty variant: register falls off its end and returns undefined
NoSourceOrBuilderIgnored(cfg, id) == Return(cfg, Undefined)

\* throw new Error(`package ${id} has no source or builder`)
NoSourceOrBuilder(cfg, id) == Throw(cfg, Err("DescriptorError"))

RegisterStep(cfg) ==
  LET f == Top(cfg)
      id == Default(f.id, Str(""))
  IN
  CASE f.pc = "start" ->
         IF Truthy(Registered(cfg.m, id, f.build))
         THEN Return(cfg, Registered(cfg.m, id, f.build))
         ELSE Await(cfg, "pkg", FLoadPackage(id))
    [] f.pc = "pkg" ->
         IF f.ret.source # ""
         THEN Await(SetTop(cfg, [f EXCEPT !.pkg = f.ret]), "deps",
                    FGetDependencies(f.ret.dependencies))
         ELSE IF f.ret.builder # ""
              THEN RegisterFromBuilder(cfg, id, f.ret, f.build)
              ELSE NoSourceOrBuilder(cfg, id)
    [] f.pc = "deps" ->
         Await(SetTop(cfg, [f EXCEPT !.deps = f.ret]), "source",
               FImport(Str(f.pkg.source)))
    [] f.pc = "source" ->
         RegisterFromSource(cfg, id, f.ret.factory, f)

(***************************************************************************)
(* async #createModuleFromBuilder ( moduleID, builderId, factorySettings ) *)
(***************************************************************************)
\* a faulty variant: a module already stored under the id is kept
StoreModuleOnce(m, moduleID, mod) ==
  [m EXCEPT !.modules = IF moduleID \in DOMAIN @ THEN @ ELSE Put(@, moduleID, mod),
            !.nextObj = @ + 1]

\* this.#modules.set( moduleID, mod ), mod being a new object
StoreModule(m, moduleID, mod) ==
  [m EXCEPT !.modules = Put(@, moduleID, mod), !.nextObj = @ + 1]

\* a faulty variant: the call is suspended once the settings are applied, and
\* builds on its resumption with the settings the Builder holds by then
BuildAndStoreSuspended(cfg, f) ==
  IF f.pc = "builder"
  THEN LET B == ApplySettings(cfg.m.builders[f.builderId], f.factorySettings) IN
       [SetTop([cfg EXCEPT !.m.builders = Put(@, f.builderId, B)],
               [f EXCEPT !.pc = "applied"])
          EXCEPT !.yield = TRUE]
  ELSE LET mod == Build(cfg.m.builders[f.builderId], cfg.m.nextObj) IN
       IF mod.ok
       THEN Return([Log(cfg, "build", f.moduleID)
                      EXCEPT !.m = StoreModule(@, f.moduleID, mod.v)],
                   mod.v)
       ELSE Throw(cfg, mod.v)

\* const mod = Builder.applySettings( factorySettings ).build();
\* this.#modules.set( moduleID, mod ); return mod;
BuildAndStore(cfg, f) ==
  LET B == ApplySettings(cfg.m.builders[f.builderId], f.factorySettings)
      mod == Build(B, cfg.m.nextObj)
      c2 == [cfg EXCEPT !.m.builders = Put(@, f.builderId, B)]
  IN
  IF mod.ok
  THEN Return([Log(c2, "build", f.moduleID)
                 EXCEPT !.m = StoreModule(@, f.moduleID, mod.v)],
              mod.v)
  ELSE Throw(c2, mod.v)

CreateModuleFromBuilderStep(cfg) ==
  LET f == Top(cfg) IN
  IF f.pc = "start"
  THEN IF f.builderId \notin DOMAIN cfg.m.builders
       THEN Await(cfg, "builder", FRegister(Str(f.builderId), FALSE))
       ELSE SetTop(cfg, [f EXCEPT !.pc = "builder"])
  ELSE IF f.builderId \notin DOMAIN cfg.m.builders
       THEN Throw(cfg, Err("TypeError"))           \* undefined.applySettings
       ELSE BuildAndStore(cfg, f)

(***************************************************************************)
(* #parseDependencies ( packageID, dependency )                            *)
(***************************************************************************)
ParseDependencies(packageID, dependency) ==
  CASE dependency.type = "string" ->
         [ok |-> TRUE, id |-> dependency, name |-> dependency,
          method |-> Undefined, build |-> Undefined]
    [] dependency.type = "undefined" ->
         [ok |-> FALSE, v |-> Err("TypeError")]    \* dependency.pkg
    [] OTHER ->
         IF dependency.name.type = "undefined"
         THEN [ok |-> FALSE, v |-> Err("DescriptorError")]
         ELSE [ok |-> TRUE, id |-> Or(dependency.pkg, dependency.source),
               name |-> dependency.name, method |-> dependency.method,
               build |-> Or(dependency.build, True)]

(***************************************************************************)
(* async #getDependencies ({ packages = [], sources = [] } = {})           *)
(* Both loops call #parseDependencies with the spec as its only argument,  *)
(* so that `dependency` is undefined.                                      *)
(***************************************************************************)
\* a faulty variant: a dependency that cannot be resolved is left out and the
\* map bound so far is returned
UnresolvedSkipped(cfg, e) == Return(cfg, Top(cfg).deps)

\* an error raised while resolving: nothing in #getDependencies catches it
Unresolved(cfg, e) == Throw(cfg, e)

GetDependenciesStep(cfg) ==
  LET f == Top(cfg) IN
  CASE f.pc = "packages" ->
         IF f.i > Len(f.dependencies.packages)
         THEN SetTop(cfg, [f EXCEPT !.pc = "sources", !.i = 1])
         ELSE LET p == ParseDependencies(f.dependencies.packages[f.i], Undefined) IN
              IF ~ p.ok
              THEN Unresolved(cfg, p.v)
              ELSE IF ~ Has(DOMAIN cfg.m.modules, p.id)
                   THEN Await(cfg, "bindPackage", FRegister(p.id, Truthy(p.build)))
                   ELSE SetTop(cfg, [f EXCEPT !.pc = "bindPackage"])
    [] f.pc = "bindPackage" ->
         Unresolved(cfg, Err("ReferenceError"))         \* modules.get( id )
    [] f.pc = "sources" ->
         IF f.i > Len(f.dependencies.sources)
         THEN Return(cfg, f.deps)
         ELSE LET p == ParseDependencies(f.dependencies.sources[f.i], Undefined) IN
              IF ~ p.ok
              THEN Unresolved(cfg, p.v)
              ELSE Await(cfg, "bindSource", FImport(p.id))
    [] f.pc = "bindSource" ->
         Unresolved(cfg, Err("TypeError"))              \* name = name || method

(***************************************************************************)
(* Running a call.                                                         *)
(***************************************************************************)
\* the code of the function on top of the stack, up to its next call,
\* return, throw or await
Micro(cfg) ==
  CASE Top(cfg).fn = "run" -> RunStep(cfg)
    [] Top(cfg).fn = "execute" -> ExecuteStep(cfg)
    [] Top(cfg).fn = "executeWithFallback" -> ExecuteWithFallbackStep(cfg)
    [] Top(cfg).fn = "loadPackage" -> LoadPackageStep(cfg)
    [] Top(cfg).fn = "import" -> ImportStep(cfg)
    [] Top(cfg).fn = "register" -> RegisterStep(cfg)
    [] Top(cfg).fn = "createModuleFromBuilder" -> CreateModuleFromBuilderStep(cfg)
    [] Top(cfg).fn = "getDependencies" -> GetDependenciesStep(cfg)

\* run synchronously until the call is suspended at an await or is over
RECURSIVE RunSync(_)
RunSync(cfg) ==
  IF cfg.res.k # "none" \/ cfg.yield
  THEN cfg
  ELSE CHOOSE c \in { RunSync(next) : next \in {Micro(cfg)} } : TRUE

\* a suspended call is resumed and runs to its next suspension
Resumed(cfg) == RunSync(Micro([cfg EXCEPT !.yield = FALSE]))

\* the call run on its own from start to end, nothing else in between
RECURSIVE RunToEnd(_)
RunToEnd(cfg) ==
  IF cfg.res.k # "none"
  THEN cfg
  ELSE CHOOSE c \in { RunToEnd(next) : next \in {Micro([cfg EXCEPT !.yield = FALSE])} } :
         TRUE

\* a call of the API, about to start on the registry m
Start(m, frame) ==
  [m |-> m, stk |-> <<frame>>, res |-> Running, log |-> <<>>, yield |-> FALSE]

(***************************************************************************)
(* The constructor.                                                        *)
(***************************************************************************)
Native(name) == [type |-> "native", val |-> name]

\* the options the instance is constructed with: none, or the default
\* triple of src/test.js
Configs ==
  { [defaultApp |-> Undefined, defaultCmd |-> Undefined, defaultData |-> Undefined],
    [defaultApp |-> Str("greeter"), defaultCmd |-> Str("greet"),
     defaultData |-> Str("Nobody")] }

\* FALSE when the constructor throws
ConstructorAccepts(o) ==
  Truthy(o.defaultApp) =>
    isString(o.defaultApp) /\ hasValue(o.defaultApp)
    /\ isString(o.defaultCmd) /\ hasValue(o.defaultCmd)

ConstructedModules(o) ==
  [id \in NativeModules \cup (IF Truthy(o.defaultApp) THEN {"executeWithFallback"} ELSE {})
     |-> Native(id)]

\* no call has completed yet
NoCall == [op |-> "none", args |-> <<>>, res |-> Running, log |-> <<>>,
           fresh |-> FALSE, racing |-> FALSE]

\* new BlackMamba( o ) has returned
Constructed(o) ==
  /\ ConstructorAccepts(o)
  /\ modules = ConstructedModules(o)
  /\ builders = <<>>
  /\ packages = {}
  /\ sources = <<>>
  /\ defaultApp = o.defaultApp
  /\ defaultCmd = o.defaultCmd
  /\ defaultData = o.defaultData
  /\ nextObj = 1
  /\ calls = EmptyBag
  /\ last = NoCall
  /\ begun = 0

Init == (\E o \in Configs : Constructed(o)) /\ down = {}

(***************************************************************************)
(* The inputs of the calls.                                                *)
(***************************************************************************)
RegisterIds == {Str("greeter"), Str("builder"), Str("fromB"), Str("shouter")}

Apps == {Str("greeter"), Str("fromB"), Str("shouter"), Str(""), Num("5")}

Cmds == {Str("greet"), Str(""), Num("5")}

Data == {Str("John")}

RunEntries ==
  { [pkg |-> Str("greeter"), cmd |-> Str("greet"), data |-> Str("John")],
    [pkg |-> Str("fromB"), cmd |-> Str("greet"), data |-> Str("John")],
    [pkg |-> Str("shouter"), cmd |-> Str("greet"), data |-> Str("John")] }

RunLists == UNION { [1..n -> RunEntries] : n \in 0..MaxRunLen }

(***************************************************************************)
(* The calls made one at a time: each action is one call of the API, from  *)
(* its start to the settling of its promise, with no other call in flight. *)
(***************************************************************************)
SetRegistry(m) ==
  /\ modules' = m.modules
  /\ builders' = m.builders
  /\ packages' = m.packages
  /\ sources' = m.sources
  /\ nextObj' = m.nextObj
  /\ down' = m.down

\* was the first argument of the call an id whose descriptor was not loaded
Fresh(args) == ~ Has(packages, args[1])

Completed(op, args, c, fresh, racing) ==
  [op |-> op, args |-> args, res |-> c.res, log |-> c.log,
   fresh |-> fresh, racing |-> racing]

Call(op, args, frame) ==
  /\ calls = EmptyBag
  /\ nextObj <= MaxObjs
  /\ LET c == RunToEnd(Start(Registry, frame)) IN
       /\ SetRegistry(c.m)
       /\ last' = Completed(op, args, c, op # "run" /\ Fresh(args), FALSE)
  /\ UNCHANGED << defaultApp, defaultCmd, defaultData, calls, begun >>

Register(id, build) ==
  Call("register", <<id, build>>, FRegister(id, build))

Execute(nextApp, cmd, data) ==
  Call("execute", <<nextApp, cmd, data>>, FExecute(nextApp, cmd, data))

ExecuteWithFallback(nextApp, cmd, data) ==
  Call("executeWithFallback", <<nextApp, cmd, data>>,
       FExecuteWithFallback(nextApp, cmd, data))

Run(list) ==
  Call("run", <<list>>, FRun(list))

Next ==
  \/ \E id \in RegisterIds, build \in BOOLEAN : Register(id, build)
  \/ \E nextApp \in Apps, cmd \in Cmds, data \in Data : Execute(nextApp, cmd, data)
  \/ \E nextApp \in Apps, cmd \in Cmds, data \in Data :
       ExecuteWithFallback(nextApp, cmd, data)
  \/ \E list \in RunLists : Run(list)

Spec == Init /\ [][Next]_vars

(***************************************************************************)
(* The calls made one at a time on the descriptors that make register      *)
(* fail.                                                                   *)
(***************************************************************************)
FaultyIds ==
  { Str("empty"), Str("withdep"), Str("depmissing"), Str("badsrc"), Str("thrower"),
    Str("greeter") }

NextFaulty ==
  \/ \E id \in FaultyIds, build \in BOOLEAN : Register(id, build)
  \/ \E nextApp \in FaultyIds, data \in Data : Execute(nextApp, Str("greet"), data)
  \/ \E nextApp \in FaultyIds, data \in Data :
       ExecuteWithFallback(nextApp, Str("greet"), data)

SpecFaulty == Init /\ [][NextFaulty]_vars

(***************************************************************************)
(* The calls made one at a time on an instance constructed with any        *)
(* default triple the constructor accepts.                                 *)
(***************************************************************************)
AllConfigs ==
  [defaultApp : {Undefined, Str(""), Str("greeter"), Str("shouter"), Num("5")},
   defaultCmd : {Undefined, Str(""), Str("greet"), Str("shout")},
   defaultData : {Undefined, Str("Nobody")}]

InitAny == (\E o \in AllConfigs : Constructed(o)) /\ down = {}

DefaultsApps == { Str("greeter"), Str("shouter") }

NextDefaults ==
  \/ \E id \in DefaultsApps : Register(id, TRUE)
  \/ \E nextApp \in DefaultsApps, data \in Data : Execute(nextApp, Str("greet"), data)
  \/ \E nextApp \in DefaultsApps, data \in Data :
       ExecuteWithFallback(nextApp, Str("greet"), data)

SpecDefaults == InitAny /\ [][NextDefaults]_vars

(***************************************************************************)
(* The calls made one at a time while the files behind the loaders come    *)
(* and go: loadPackage and import called directly, and register.           *)
(***************************************************************************)
\* the paths handed to loadPackage and to import
LoadPaths == { Str("greeter"), Str("shouter") }

ImportPaths == { Str("/greeter.js"), Str("/missing.js") }

OutagePaths == { "greeter", "/greeter.js" }

InitOutage ==
  /\ Constructed([defaultApp |-> Undefined, defaultCmd |-> Undefined,
                  defaultData |-> Undefined])
  /\ down \in SUBSET OutagePaths

\* a file becomes unreadable
Outage(p) ==
  /\ calls = EmptyBag
  /\ p \notin down
  /\ down' = down \cup {p}
  /\ UNCHANGED << modules, builders, packages, sources, defaultApp, defaultCmd,
                  defaultData, nextObj, calls, last, begun >>

\* every file is readable again
Restore ==
  /\ calls = EmptyBag
  /\ down # {}
  /\ down' = {}
  /\ UNCHANGED << modules, builders, packages, sources, defaultApp, defaultCmd,
                  defaultData, nextObj, calls, last, begun >>

LoadPackage(path) ==
  Call("loadPackage", <<path>>, FLoadPackage(path))

Import(sourcePath) ==
  Call("import", <<sourcePath>>, FImport(sourcePath))

OutageIds == { Str("greeter"), Str("thrower"), Str("withdep") }

NextOutage ==
  \/ \E p \in OutagePaths : Outage(p)
  \/ Restore
  \/ \E path \in LoadPaths : LoadPackage(path)
  \/ \E sourcePath \in ImportPaths : Import(sourcePath)
  \/ \E id \in OutageIds, build \in BOOLEAN : Register(id, build)

SpecOutage == InitOutage /\ [][NextOutage]_vars

(***************************************************************************)
(* The calls made one at a time on the descriptors that name a Builder.    *)
(***************************************************************************)
RefIds == { Str("builder"), Str("fromB"), Str("fromB2"), Str("chain") }

NextRefs ==
  \/ \E id \in RefIds, build \in BOOLEAN : Register(id, build)
  \/ \E nextApp \in RefIds, data \in Data : Execute(nextApp, Str("greet"), data)

SpecRefs == Init /\ [][NextRefs]_vars

(***************************************************************************)
(* The caller that keeps a Builder (src/test.js, "register a package and   *)
(* keep the builder"): it registers with either flag, and uses the Builder *)
(* stored under the id itself, Builder.inject( deps ) and                  *)
(* Builder.applySettings( settings ).build().  The Builder is one object:  *)
(* what the caller does to it is seen through #builders.                   *)
(***************************************************************************)
KeptIds == { Str("builder"), Str("greeter") }

SettingsValues == { Undefined, Settings("built-in"), Settings("I came from a builder") }

DependencyMaps == { [type |-> "object", val |-> "{}"], [type |-> "object", val |-> "{ log }"] }

\* Builder.inject( factoryDependencies ), which returns the Builder
CallerInject(id, factoryDependencies) ==
  /\ calls = EmptyBag
  /\ nextObj <= MaxObjs
  /\ id.val \in DOMAIN builders
  /\ LET B == Inject(builders[id.val], factoryDependencies) IN
       /\ builders' = Put(builders, id.val, B)
       /\ last' = [op |-> "inject", args |-> <<id, factoryDependencies>>,
                   res |-> [k |-> "ok", v |-> B], log |-> <<>>,
                   fresh |-> FALSE, racing |-> FALSE]
  /\ UNCHANGED << modules, packages, sources, defaultApp, defaultCmd, defaultData,
                  nextObj, calls, begun, down >>

\* Builder.applySettings( factorySettings ).build(), the module going to the
\* caller and not into #modules
CallerBuild(id, factorySettings) ==
  /\ calls = EmptyBag
  /\ nextObj <= MaxObjs
  /\ id.val \in DOMAIN builders
  /\ LET B == ApplySettings(builders[id.val], factorySettings)
         mod == Build(B, nextObj)
     IN
       /\ builders' = Put(builders, id.val, B)
       /\ nextObj' = nextObj + 1
       /\ last' = [op |-> "build", args |-> <<id, factorySettings>>,
                   res |-> [k |-> IF mod.ok THEN "ok" ELSE "err", v |-> mod.v],
                   log |-> <<>>, fresh |-> FALSE, racing |-> FALSE]
  /\ UNCHANGED << modules, packages, sources, defaultApp, defaultCmd, defaultData,
                  calls, begun, down >>

NextBuilder ==
  \/ \E id \in KeptIds, build \in BOOLEAN : Register(id, build)
  \/ \E id \in KeptIds, deps \in DependencyMaps : CallerInject(id, deps)
  \/ \E id \in KeptIds, settings \in SettingsValues : CallerBuild(id, settings)

SpecBuilder == Init /\ [][NextBuilder]_vars

(***************************************************************************)
(* The calls made concurrently: a caller starts a call, which runs to its  *)
(* first await and is suspended; a suspended call is resumed and runs to   *)
(* its next await or to its end.  Each caller makes one call.              *)
(***************************************************************************)
ConcRunLists ==
  { << [pkg |-> Str("greeter"), cmd |-> Str("greet"), data |-> Str("John")] >>,
    << [pkg |-> Str("shouter"), cmd |-> Str("greet"), data |-> Str("John")],
       [pkg |-> Str("greeter"), cmd |-> Str("greet"), data |-> Str("John")] >>,
    << [pkg |-> Str("fromB"), cmd |-> Str("greet"), data |-> Str("John")],
       [pkg |-> Str("greeter"), cmd |-> Str("greet"), data |-> Str("John")] >> }

InFlight == BagToSet(calls)

\* two register calls for the same id, neither descriptor loaded when the
\* call started, both started before either completed
Races(op, args, fresh, call) ==
  op = "register" /\ call.op = "register" /\ call.args = args
  /\ fresh /\ call.fresh

Suspended(op, args, c, fresh, racing) ==
  [op |-> op, args |-> args, stk |-> c.stk, log |-> c.log,
   fresh |-> fresh, racing |-> racing]

\* the calls in flight once a call of op(args) has started
Joined(op, args, fresh) ==
  LET marked(call) == [call EXCEPT !.racing = @ \/ Races(op, args, fresh, call)] IN
  [ x \in { marked(call) : call \in InFlight } |->
      LET from == { call \in InFlight : marked(call) = x } IN
      IF Cardinality(from) = 1
      THEN calls[CHOOSE call \in from : TRUE]
      ELSE BagCardinality([call \in from |-> calls[call]]) ]

Begin(op, args, frame) ==
  /\ begun < Cardinality(Callers)
  /\ begun' = begun + 1
  /\ LET c == RunSync(Start(Registry, frame))
         fresh == op # "run" /\ Fresh(args)
         racing == \E call \in InFlight : Races(op, args, fresh, call)
     IN
       /\ SetRegistry(c.m)
       /\ IF c.res.k = "none"
          THEN /\ calls' = Joined(op, args, fresh)
                             (+) SetToBag({Suspended(op, args, c, fresh, racing)})
               /\ last' = last
          ELSE /\ calls' = calls
               /\ last' = Completed(op, args, c, fresh, racing)
  /\ UNCHANGED << defaultApp, defaultCmd, defaultData >>

BeginRegister(id, build) ==
  Begin("register", <<id, build>>, FRegister(id, build))

BeginExecute(nextApp, cmd, data) ==
  Begin("execute", <<nextApp, cmd, data>>, FExecute(nextApp, cmd, data))

BeginExecuteWithFallback(nextApp, cmd, data) ==
  Begin("executeWithFallback", <<nextApp, cmd, data>>,
        FExecuteWithFallback(nextApp, cmd, data))

BeginRun(list) ==
  Begin("run", <<list>>, FRun(list))

\* loadPackage and import are public too
BeginLoadPackage(path) ==
  Begin("loadPackage", <<path>>, FLoadPackage(path))

BeginImport(sourcePath) ==
  Begin("import", <<sourcePath>>, FImport(sourcePath))

Resume(call) ==
  /\ call \in InFlight
  /\ LET c == Resumed([m |-> Registry, stk |-> call.stk, res |-> Running,
                       log |-> call.log, yield |-> TRUE])
         rest == calls (-) SetToBag({call})
     IN
       /\ SetRegistry(c.m)
       /\ IF c.res.k = "none"
          THEN /\ calls' = rest (+) SetToBag({Suspended(call.op, call.args, c,
                                                        call.fresh, call.racing)})
               /\ last' = last
          ELSE /\ calls' = rest
               /\ last' = Completed(call.op, call.args, c, call.fresh, call.racing)
  /\ UNCHANGED << defaultApp, defaultCmd, defaultData, begun >>

NextConc ==
  \/ \E id \in RegisterIds, build \in BOOLEAN : BeginRegister(id, build)
  \/ \E nextApp \in Apps, cmd \in Cmds, data \in Data :
       BeginExecute(nextApp, cmd, data)
  \/ \E nextApp \in Apps, cmd \in Cmds, data \in Data :
       BeginExecuteWithFallback(nextApp, cmd, data)
  \/ \E list \in ConcRunLists : BeginRun(list)
  \/ \E path \in LoadPaths : BeginLoadPackage(path)
  \/ \E sourcePath \in ImportPaths : BeginImport(sourcePath)
  \/ \E call \in InFlight : Resume(call)

SpecConc == Init /\ [][NextConc]_vars

(***************************************************************************)
(* Registrations made concurrently of the packages whose descriptors name  *)
(* the Builder of "builder", each with factorySettings of its own, and of  *)
(* "builder" itself.                                                       *)
(***************************************************************************)
SharedIds == { Str("fromB"), Str("fromB2"), Str("builder") }

NextShared ==
  \/ \E id \in SharedIds, build \in BOOLEAN : BeginRegister(id, build)
  \/ \E call \in InFlight : Resume(call)

SpecShared == Init /\ [][NextShared]_vars

(***************************************************************************)
(* Registrations made concurrently with loaders that always respond: a     *)
(* suspended call is always resumed in the end.  The descriptors reachable *)
(* from the ids name Builders and list dependencies without a cycle.       *)
(***************************************************************************)
LiveIds == { Str("greeter"), Str("chain"), Str("withdep"), Str("shouter") }

\* a call is followed as long as its stack is no deeper than MaxDepth
ResumeWithin(call) == Len(call.stk) <= MaxDepth /\ Resume(call)

Responds == \E call \in InFlight : ResumeWithin(call)

NextLive ==
  \/ \E id \in LiveIds, build \in BOOLEAN : BeginRegister(id, build)
  \/ Responds

SpecLive == Init /\ [][NextLive]_vars /\ WF_vars(Responds)

(***************************************************************************)
(* Reading a call's log, and calls run from the current registry.          *)
(***************************************************************************)
\* the ids of the events e of a log, in order
Events(log, e) ==
  LET idx == { i \in 1..Len(log) : log[i][1] = e }
      nth[k \in 0..Len(log)] ==
        IF k = 0 THEN 0 ELSE CHOOSE i \in idx : i > nth[k-1] /\ \A j \in idx : j > nth[k-1] => i <= j
  IN [k \in 1..Cardinality(idx) |-> log[nth[k]][2]]

\* how often the Descriptor Loader was invoked for id
Loads(log, id) == Cardinality({ i \in 1..Len(log) : log[i] = <<"loadJson", id>> })

\* the call touched no collaborator and built nothing
Quiet(log) == \A i \in 1..Len(log) : log[i][1] \notin {"loadJson", "import", "build"}

\* the three tables of the registry
Tables(m) == [modules |-> m.modules, builders |-> m.builders, packages |-> m.packages]

\* register(id, build), execute(...) and executeWithFallback(...) made now,
\* on their own, from the current registry
RegisterNow(id, build) == RunToEnd(Start(Registry, FRegister(id, build)))

ExecuteNow(nextApp, cmd, data) == RunToEnd(Start(Registry, FExecute(nextApp, cmd, data)))

ExecuteWithFallbackNow(nextApp, cmd, data) ==
  RunToEnd(Start(Registry, FExecuteWithFallback(nextApp, cmd, data)))

\* the call that completed last was register(id, build) and it succeeded
Registered_(id, build) ==
  last.op = "register" /\ last.args = <<id, build>> /\ last.res.k = "ok"

\* the ids whose descriptor has a source, and those that name a Builder
SourceIds == { id \in RegisterIds : id.val \in DOMAIN Packages /\ Packages[id.val].source # "" }

BuilderRefIds ==
  { id \in RegisterIds : id.val \in DOMAIN Packages /\ Packages[id.val].source = ""
                         /\ Packages[id.val].builder # "" }

(***************************************************************************)
(* C1  Idempotent build: once register(id) with build = true has           *)
(* succeeded, the same call made next returns the identical module, and    *)
(* the two calls together invoke the Descriptor Loader at most once for    *)
(* id.                                                                     *)
(***************************************************************************)
C1_IdempotentBuild ==
  \A id \in RegisterIds :
    Registered_(id, TRUE) =>
      LET second == RegisterNow(id, TRUE) IN
        /\ second.res = last.res
        /\ second.res.v.type = "module"
        /\ Loads(last.log, id.val) + Loads(second.log, id.val) <= 1

\* register(id) has loaded and built id, and register(id) made again has
\* been answered without the Descriptor Loader
C1_Witness ==
  \E id \in RegisterIds :
    /\ Registered_(id, TRUE)
    /\ ~ last.fresh
    /\ Loads(last.log, id.val) = 0
    /\ last.res.v = modules[id.val]
    /\ last.res.v.obj > 1

(***************************************************************************)
(* C2  Memoization for either flag (as claimed): once register(id, build)  *)
(* has succeeded, the same call made next invokes no loader, builds        *)
(* nothing and leaves modules, builders and loadedPackages unchanged, for  *)
(* source and builder-reference descriptors and either flag.  The code     *)
(* breaks it for a builder-reference descriptor registered with build =    *)
(* false: no Builder is ever stored under its id, so the lookup of the     *)
(* registered Builder finds nothing and the package is loaded and built    *)
(* again.                                                                  *)
(***************************************************************************)
C2_Memoization ==
  [][ \A id \in RegisterIds, build \in BOOLEAN :
        (Registered_(id, build) /\ Register(id, build)) =>
          /\ Quiet(last'.log)
          /\ Tables(Registry)' = Tables(Registry) ]_vars

(***************************************************************************)
(* C3  Auto-registration equivalence.  As claimed: for any id that is not  *)
(* a built module, execute(id, cmd, data) has the same outcome and leaves  *)
(* the same registry as register(id) followed by execute(id, cmd, data).   *)
(* As amended: the same, for id and cmd non-empty strings (execute         *)
(* validates cmd before it registers, register does not).                  *)
(***************************************************************************)
\* a non-empty string
ValidName(v) == v.type = "string" /\ v.val # ""

\* register(id) and then, if it succeeded, execute(id, cmd, data)
RegisterThenExecute(id, cmd, data) ==
  LET reg == RegisterNow(id, TRUE) IN
  IF reg.res.k = "ok" THEN RunToEnd(Start(reg.m, FExecute(id, cmd, data))) ELSE reg

\* both succeed with the same result or both fail
SameResult(a, b) == a.k = b.k /\ (a.k = "ok" => a.v = b.v)

\* the step is the call execute(id, cmd, data), made on an id that is not a
\* built module
ExecutesUnbuilt(id, cmd, data) ==
  /\ ~ Has(DOMAIN modules, id)
  /\ last'.op = "execute"
  /\ last'.args = <<id, cmd, data>>

C3_Original ==
  [][ \A id \in Apps, cmd \in Cmds, data \in Data :
        ExecutesUnbuilt(id, cmd, data) =>
          LET twoCalls == RegisterThenExecute(id, cmd, data) IN
            /\ SameResult(last'.res, twoCalls.res)
            /\ Registry' = twoCalls.m ]_vars

C3_AutoRegistration ==
  [][ \A id \in Apps, cmd \in Cmds, data \in Data :
        (ExecutesUnbuilt(id, cmd, data) /\ ValidName(id) /\ ValidName(cmd)) =>
          LET twoCalls == RegisterThenExecute(id, cmd, data) IN
            /\ last'.res = twoCalls.res
            /\ Registry' = twoCalls.m ]_vars

\* execute has registered an id that was not loaded and run its command
C3_Witness ==
  /\ last.op = "execute"
  /\ last.fresh
  /\ Loads(last.log, last.args[1].val) = 1
  /\ last.res = [k |-> "ok", v |-> Str("Hello John")]
  /\ last.args[1].val \in DOMAIN modules

(***************************************************************************)
(* C4  Fallback triggers only on registration failure: on an instance with *)
(* a default triple, executeWithFallback(id, cmd, data) has the outcome of *)
(* execute(id, cmd, data) when id is a built module or registers           *)
(* successfully, and the outcome of execute(defaultApp, defaultCmd,        *)
(* defaultData) when registering id fails.                                 *)
(***************************************************************************)
C4_Fallback ==
  Truthy(defaultApp) =>
    \A id \in Apps, cmd \in Cmds, data \in Data :
      LET withFallback == ExecuteWithFallbackNow(id, cmd, data) IN
      IF Has(DOMAIN modules, id) \/ RegisterNow(id, TRUE).res.k = "ok"
      THEN withFallback.res = ExecuteNow(id, cmd, data).res
      ELSE withFallback.res = ExecuteNow(defaultApp, defaultCmd, defaultData).res

\* executeWithFallback on an id that cannot be registered has answered with
\* the default command on the default data
C4_Witness ==
  /\ last.op = "executeWithFallback"
  /\ last.args[1] = Str("shouter")
  /\ Events(last.log, "fallback") = << "shouter" >>
  /\ last.res = [k |-> "ok", v |-> Str("Hello Nobody")]

(***************************************************************************)
(* C5  Batch order and short-circuit: run(list) calls execute for the      *)
(* entries in list order, entry i+1 only after the command of entry i has  *)
(* returned; when the execute of entry k fails, no later entry is executed *)
(* or registered and run rejects with that failure.                        *)
(***************************************************************************)
Pkgs(list) == [i \in 1..Len(list) |-> list[i].pkg.val]

\* in the log, the command of entry i comes before the execute of entry i+1
\* and nothing follows an execute that did not reach its command
InTurn(log) ==
  \A i, j \in 1..Len(log) :
    (i < j /\ log[i][1] = "execute" /\ log[j][1] = "execute") =>
      \E c \in (i+1)..(j-1) : log[c] = <<"command", log[i][2]>>

C5_BatchOrder ==
  last.op = "run" =>
    LET list == last.args[1]
        executed == Events(last.log, "execute")
        k == Len(executed)
    IN
      /\ k <= Len(list)
      /\ executed = SubSeq(Pkgs(list), 1, k)
      /\ InTurn(last.log)
      /\ last.res.k = "ok" =>
           /\ k = Len(list)
           /\ Events(last.log, "command") = Pkgs(list)
      /\ last.res.k = "err" =>
           /\ k >= 1
           /\ Events(last.log, "command") = SubSeq(Pkgs(list), 1, k - 1)
           /\ last.res = ExecuteNow(list[k].pkg, list[k].cmd, list[k].data).res
           /\ \A i \in (k+1)..Len(list) :
                list[i].pkg.val \notin { list[j].pkg.val : j \in 1..k } =>
                  \A e \in 1..Len(last.log) : last.log[e][2] # list[i].pkg.val

\* run has stopped at a first entry that cannot be registered, and the
\* second entry has not been loaded
C5_Witness ==
  /\ last.op = "run"
  /\ Pkgs(last.args[1]) = << "shouter", "greeter" >>
  /\ last.res = [k |-> "err", v |-> Err("PackageLoadError")]
  /\ Events(last.log, "execute") = << "shouter" >>
  /\ "greeter" \notin packages

(***************************************************************************)
(* C6  No de-duplication of concurrent registrations: of two register(id)  *)
(* calls for the same id, not loaded when either started and both started  *)
(* before either completed, each invokes the Descriptor Loader and builds  *)
(* on its own, and when one of them completes modules[id] is the module it *)
(* returns (for a source descriptor, built from the Builder it stored in   *)
(* builders[id]): the call that completes last overwrites the other's.     *)
(***************************************************************************)
C6_NoDeduplication ==
  \A id \in RegisterIds :
    (Registered_(id, TRUE) /\ last.racing) =>
      /\ Loads(last.log, id.val) = 1
      /\ \E e \in 1..Len(last.log) : last.log[e] = <<"build", id.val>>
      /\ modules[id.val] = last.res.v
      /\ id \in SourceIds =>
           /\ builders[id.val].obj + 1 = last.res.v.obj
           /\ builders[id.val].factory = last.res.v.factory

\* both racing calls have completed: two Builders and two modules were
\* made, and the registry holds the later ones
C6_Witness ==
  /\ Registered_(Str("greeter"), TRUE)
  /\ last.racing
  /\ calls = EmptyBag
  /\ begun = Cardinality(Callers)
  /\ nextObj = 5
  /\ modules["greeter"].obj = 4
  /\ builders["greeter"].obj = 3

(***************************************************************************)
(* C7  Builder-reference path always builds: for a descriptor with         *)
(* `builder` and no `source`, register(id, build) returns a module built   *)
(* with the descriptor's factorySettings and stores it in modules under    *)
(* id, for build = true and build = false alike, and no Builder is ever    *)
(* stored under id.                                                        *)
(***************************************************************************)
C7_BuilderPathAlwaysBuilds ==
  \A id \in BuilderRefIds :
    /\ id.val \notin DOMAIN builders
    /\ \A build \in BOOLEAN :
         Registered_(id, build) =>
           /\ last.res.v.type = "module"
           /\ last.res.v.settings = Packages[id.val].factorySettings
           /\ modules[id.val] = last.res.v

\* register(id, false) on a builder-reference package has loaded it and
\* returned the module it built
C7_Witness ==
  /\ Registered_(Str("fromB"), FALSE)
  /\ last.fresh
  /\ Loads(last.log, "fromB") = 1
  /\ modules["fromB"] = last.res.v

(***************************************************************************)
(* C8  Source path respects the build flag: for a descriptor with          *)
(* `source`, register(id, false) stores a Builder under id, returns that   *)
(* Builder and stores no module (modules is as before, so an id that was   *)
(* in neither table is now in builders and not in modules); register(id,   *)
(* true) leaves a Builder under id, and returns the module stored under    *)
(* id, built by that Builder's factory with the descriptor's               *)
(* factorySettings.                                                        *)
(***************************************************************************)
C8_SourcePathRespectsFlag ==
  \A id \in SourceIds :
    LET off == RegisterNow(id, FALSE)
        on == RegisterNow(id, TRUE)
    IN
      /\ off.res.k = "ok" =>
           /\ off.res.v.type = "builder"
           /\ off.m.builders[id.val] = off.res.v
           /\ off.m.modules = modules
      /\ on.res.k = "ok" =>
           /\ on.res.v.type = "module"
           /\ on.m.modules[id.val] = on.res.v
           /\ id.val \in DOMAIN on.m.builders
           /\ on.res.v.factory = on.m.builders[id.val].factory
           /\ on.res.v.settings = Packages[id.val].factorySettings

\* register(id, false) has stored and returned the Builder of a source
\* package, and no module
C8_Witness ==
  /\ Registered_(Str("greeter"), FALSE)
  /\ last.fresh
  /\ last.res.v = builders["greeter"]
  /\ "greeter" \notin DOMAIN modules

(***************************************************************************)
(* C9  execute validation: execute(nextApp, cmd, data) fails with a        *)
(* validation error whenever nextApp or cmd is not a non-empty string,     *)
(* invokes no loader and no command, and leaves the registry unchanged.    *)
(***************************************************************************)
C9_ExecuteValidation ==
  \A nextApp \in Apps, cmd \in Cmds, data \in Data :
    ~ (ValidName(nextApp) /\ ValidName(cmd)) =>
      LET r == ExecuteNow(nextApp, cmd, data) IN
        /\ r.res = [k |-> "err", v |-> Err("ValidationError")]
        /\ \A e \in 1..Len(r.log) : r.log[e][1] = "execute"
        /\ r.m = Registry

\* execute has rejected an empty nextApp
C9_Witness ==
  /\ last.op = "execute"
  /\ last.args[1] = Str("")
  /\ last.args[2] = Str("greet")
  /\ last.res = [k |-> "err", v |-> Err("ValidationError")]
  /\ last.log = << <<"execute", "">> >>

(***************************************************************************)
(* C10 Missing command: when the module resolved for nextApp (the built    *)
(* module, or the one register(nextApp) builds) has no callable member     *)
(* named cmd, execute(nextApp, cmd, data) fails with an execution error    *)
(* and the module stays in the registry under nextApp.                     *)
(***************************************************************************)
\* the module execute resolves for nextApp, undefined if registering fails
Resolved(nextApp) ==
  IF Has(DOMAIN modules, nextApp)
  THEN modules[nextApp.val]
  ELSE LET reg == RegisterNow(nextApp, TRUE) IN
       IF reg.res.k = "ok" THEN reg.res.v ELSE Undefined

C10_MissingCommand ==
  \A nextApp \in Apps, cmd \in Cmds, data \in Data :
    ( /\ ValidName(nextApp) /\ ValidName(cmd)
      /\ Resolved(nextApp).type # "undefined"
      /\ cmd.val \notin Commands(Resolved(nextApp)) ) =>
      LET r == ExecuteNow(nextApp, cmd, data) IN
        /\ r.res = [k |-> "err", v |-> Err("ExecutionError")]
        /\ Has(DOMAIN r.m.modules, nextApp)
        /\ r.m.modules[nextApp.val] = Resolved(nextApp)

\* execute has registered a package whose module is a plain function and
\* failed on the command; the module is in the registry
C10_Witness ==
  /\ last.op = "execute"
  /\ last.args[1] = Str("fromB")
  /\ last.fresh
  /\ last.res = [k |-> "err", v |-> Err("ExecutionError")]
  /\ "fromB" \in DOMAIN modules

(***************************************************************************)
(* C11 No double fallback: when executeWithFallback(nextApp, cmd, data)    *)
(* fails to register nextApp and execute(defaultApp, defaultCmd,           *)
(* defaultData), made after that failure, fails too (the default app       *)
(* cannot be registered, or the default command fails), the call ends with *)
(* that second failure and with the registry the second attempt left: it   *)
(* substitutes once, executes once, and loads nothing beyond what the two  *)
(* attempts load.                                                          *)
(***************************************************************************)
\* execute(defaultApp, defaultCmd, defaultData) made on the registry m
Retry(m) == RunToEnd(Start(m, FExecute(defaultApp, defaultCmd, defaultData)))

C11_NoDoubleFallback ==
  \A nextApp \in DefaultsApps, data \in Data :
    LET first == RegisterNow(nextApp, TRUE)
        second == Retry(first.m)
        r == ExecuteWithFallbackNow(nextApp, Str("greet"), data)
    IN
    ( /\ ~ Has(DOMAIN modules, nextApp)
      /\ first.res.k = "err"
      /\ second.res.k = "err" ) =>
      /\ r.res = second.res
      /\ r.m = second.m
      /\ Events(r.log, "fallback") = << nextApp.val >>
      /\ Len(Events(r.log, "execute")) = 1
      /\ Events(r.log, "loadJson") =
           Events(first.log, "loadJson") \o Events(second.log, "loadJson")

\* the default command has failed after the substitution, and the call has
\* failed with it
C11_Witness ==
  /\ defaultApp = Str("greeter")
  /\ defaultCmd = Str("shout")
  /\ last.op = "executeWithFallback"
  /\ last.args[1] = Str("shouter")
  /\ Events(last.log, "fallback") = << "shouter" >>
  /\ Events(last.log, "command") = <<>>
  /\ last.res = [k |-> "err", v |-> Err("ExecutionError")]

(***************************************************************************)
(* C12 executeWithFallback validates like execute (as claimed): a call     *)
(* executeWithFallback(nextApp, cmd, data) with nextApp or cmd not a       *)
(* non-empty string has failed with the validation error, without invoking *)
(* the Descriptor Loader and without substituting the default triple.      *)
(***************************************************************************)
C12_FallbackValidates ==
  ( /\ last.op = "executeWithFallback"
    /\ ~ (ValidName(last.args[1]) /\ ValidName(last.args[2])) ) =>
    /\ last.res = [k |-> "err", v |-> Err("ValidationError")]
    /\ Events(last.log, "loadJson") = <<>>
    /\ Events(last.log, "fallback") = <<>>

(***************************************************************************)
(* C13 Descriptor with neither source nor builder: register(id, build) on  *)
(* such a descriptor fails with the error "package <id> has no source or   *)
(* builder" for build = true and build = false, and neither a Builder nor  *)
(* a module is stored under id.                                            *)
(***************************************************************************)
NeitherIds ==
  { id \in FaultyIds : Packages[id.val].source = "" /\ Packages[id.val].builder = "" }

C13_NeitherSourceNorBuilder ==
  \A id \in NeitherIds, build \in BOOLEAN :
    LET r == RegisterNow(id, build) IN
      /\ r.res = [k |-> "err", v |-> Err("DescriptorError")]
      /\ id.val \notin DOMAIN r.m.builders
      /\ id.val \notin DOMAIN r.m.modules
      /\ id.val \notin DOMAIN builders
      /\ id.val \notin DOMAIN modules

\* register has loaded the descriptor of "empty" and rejected it
C13_Witness ==
  /\ last.op = "register"
  /\ last.args = << Str("empty"), FALSE >>
  /\ Loads(last.log, "empty") = 1
  /\ last.res = [k |-> "err", v |-> Err("DescriptorError")]
  /\ "empty" \notin DOMAIN builders
  /\ "empty" \notin DOMAIN modules

(***************************************************************************)
(* C14 Default-triple validation at construction (as claimed): an instance *)
(* exists with any of defaultApp, defaultCmd or defaultData supplied only  *)
(* if defaultApp and defaultCmd are both non-empty strings.                *)
(***************************************************************************)
C14_DefaultsValidated ==
  ( \/ defaultApp.type # "undefined"
    \/ defaultCmd.type # "undefined"
    \/ defaultData.type # "undefined" ) =>
    ValidName(defaultApp) /\ ValidName(defaultCmd)

(***************************************************************************)
(* C15 Builder reuse: on every Builder the registry holds, inject replaces *)
(* the dependencies, leaves the settings and returns the same Builder;     *)
(* applySettings replaces the settings, leaves the dependencies and        *)
(* returns the same Builder; built with settings S1 and then with settings *)
(* S2 and no inject in between, the Builder yields a first module that is  *)
(* factory(deps)(S1) and a second, distinct, module that is                *)
(* factory(deps)(S2).  When a caller has built from a kept Builder, the    *)
(* module has the settings the caller applied and the module register      *)
(* stored under the id is still the one built with the descriptor's        *)
(* settings.                                                               *)
(***************************************************************************)
\* mod is what factory( dependencies )( settings ) returns
BuiltFrom(mod, factory, dependencies, settings) ==
  /\ mod.type = "module"
  /\ mod.factory = factory
  /\ mod.dependencies = dependencies
  /\ mod.settings = settings

C15_BuilderReuse ==
  /\ \A id \in DOMAIN builders :
       LET B == builders[id] IN
       /\ \A D \in DependencyMaps :
            Inject(B, D) = [B EXCEPT !.dependencies = D]
       /\ \A S1 \in SettingsValues, S2 \in SettingsValues :
            LET B1 == ApplySettings(B, S1)
                first == Build(B1, nextObj)
                B2 == ApplySettings(B1, S2)
                second == Build(B2, nextObj + 1)
            IN
              /\ B1 = [B EXCEPT !.settings = S1]
              /\ B2 = [B EXCEPT !.settings = S2]
              /\ first.ok /\ second.ok
              /\ BuiltFrom(first.v, B.factory, B.dependencies, S1)
              /\ BuiltFrom(second.v, B.factory, B.dependencies, S2)
              /\ first.v.obj # second.v.obj
  /\ (last.op = "build" /\ last.res.k = "ok") =>
       LET id == last.args[1].val IN
         /\ BuiltFrom(last.res.v, builders[id].factory, builders[id].dependencies,
                      last.args[2])
         /\ builders[id].settings = last.args[2]
         /\ id \in DOMAIN modules =>
              /\ modules[id].settings = Packages[id].factorySettings
              /\ modules[id].obj # last.res.v.obj

\* register has built "builder" with the settings of its descriptor, and the
\* caller has then built a second module from the same Builder with its own
\* settings
C15_Witness ==
  /\ last.op = "build"
  /\ last.args = << Str("builder"), Settings("I came from a builder") >>
  /\ last.res.k = "ok"
  /\ last.res.v.settings = Settings("I came from a builder")
  /\ "builder" \in DOMAIN modules
  /\ modules["builder"].settings = Settings("built-in")

(***************************************************************************)
(* C16 Registry only grows: no step of any call (register, execute,        *)
(* executeWithFallback, run, loadPackage or import, in any interleaving,   *)
(* succeeding or failing) removes an id from the keys of modules, of       *)
(* builders or from the loaded packages.                                   *)
(***************************************************************************)
C16_OnlyGrows ==
  [][ /\ DOMAIN modules \subseteq DOMAIN modules'
      /\ DOMAIN builders \subseteq DOMAIN builders'
      /\ packages \subseteq packages' ]_vars

\* a call has failed, another has succeeded, and all three tables hold ids
C16_Witness ==
  /\ calls = EmptyBag
  /\ begun = Cardinality(Callers)
  /\ last.res.k = "err"
  /\ "greeter" \in DOMAIN modules
  /\ "greeter" \in DOMAIN builders
  /\ "greeter" \in packages

(***************************************************************************)
(* C17 Registry invariant on modules.  As claimed: starting from a freshly *)
(* constructed instance, every id that is a key of modules was stored by a *)
(* registration that ran with build = true.  As the code has it: the keys  *)
(* of a fresh instance are the modules the constructor installs, and every *)
(* module stored afterwards is stored by a registration of its id that ran *)
(* with build = true or that resolved a descriptor naming a Builder (which *)
(* builds for either flag).                                                *)
(***************************************************************************)
\* the step stores a module under id
StoredUnder(id) ==
  /\ id \in DOMAIN modules'
  /\ id \in DOMAIN modules => modules'[id] # modules[id]

\* the call that made the step registered id with build = true: register(id,
\* true) itself, or an execute (from executeWithFallback or run or called
\* directly) whose register( nextApp ) built id
RanBuildTrue(id) ==
  \/ last'.op = "register" /\ last'.args = << Str(id), TRUE >>
  \/ /\ last'.op \in {"execute", "executeWithFallback", "run"}
     /\ \E e \in 1..Len(last'.log) : last'.log[e] = <<"build", id>>

\* the call that made the step was register(id, build) on a descriptor that
\* names a Builder
RanOnBuilderReference(id) ==
  /\ last'.op = "register"
  /\ last'.args[1] = Str(id)
  /\ Str(id) \in BuilderRefIds

ConstructorIds == NativeModules \cup {"executeWithFallback"}

C17_Original ==
  /\ DOMAIN modules = {}
  /\ [][ \A id \in DOMAIN modules' : StoredUnder(id) => RanBuildTrue(id) ]_vars

C17_ModulesProvenance ==
  /\ DOMAIN modules \subseteq ConstructorIds
  /\ [][ \A id \in DOMAIN modules' :
           StoredUnder(id) => RanBuildTrue(id) \/ RanOnBuilderReference(id) ]_vars

\* the registry holds the constructor's modules, a module stored by
\* register(id, false) on a descriptor that names a Builder, and no module
\* for the Builder it was built from
C17_Witness ==
  /\ Registered_(Str("fromB"), FALSE)
  /\ "fromB" \in DOMAIN modules
  /\ "builder" \notin DOMAIN modules
  /\ "builder" \in DOMAIN builders
  /\ NativeModules \subseteq DOMAIN modules

(***************************************************************************)
(* C18 Tables change only on the completing path (as claimed): a call      *)
(* register(id, build) that ends in failure leaves modules, builders and   *)
(* the loaded packages exactly as they were before the call.               *)
(***************************************************************************)
C18_FailureLeavesTables ==
  [][ \A id \in FaultyIds, build \in BOOLEAN :
        (Register(id, build) /\ last'.res.k = "err") =>
          Tables(Registry)' = Tables(Registry) ]_vars

(***************************************************************************)
(* C19 Package dependency binding (as claimed): when register(id) has      *)
(* resolved a source descriptor whose dependencies.packages is non-empty   *)
(* and whose dependencies can all be registered, every dependency named by *)
(* a bare string is a built module, and the Builder stored under id has    *)
(* been injected with a map that binds each name to that module.           *)
(***************************************************************************)
\* the ids whose descriptor lists package dependencies, each a bare string
\* naming a descriptor that exists
DependentIds ==
  { id \in FaultyIds :
      LET specs == Packages[id.val].dependencies.packages IN
        /\ Len(specs) > 0
        /\ \A i \in 1..Len(specs) :
             specs[i].type = "string" /\ specs[i].val \in DOMAIN Packages }

C19_PackageDependencyBinding ==
  \A id \in DependentIds :
    ( /\ last.op = "register"
      /\ last.args[1] = id
      /\ Loads(last.log, id.val) = 1 ) =>
      LET specs == Packages[id.val].dependencies.packages IN
        /\ last.res.k = "ok"
        /\ \A i \in 1..Len(specs) : specs[i].val \in DOMAIN modules
        /\ id.val \in DOMAIN builders
        /\ builders[id.val].dependencies.type = "bindings"
        /\ \A i \in 1..Len(specs) :
             builders[id.val].dependencies.val[specs[i].val] = modules[specs[i].val]

(***************************************************************************)
(* C20 All-or-nothing dependency resolution: for a source descriptor with  *)
(* a dependency that cannot be resolved (a package that cannot be          *)
(* registered, a spec without a binding name, a source that cannot be      *)
(* imported; or, the code being what it is, any dependency at all),        *)
(* register(id, build) fails, the factory of id is not called, and neither *)
(* a Builder nor a module is stored under id.                              *)
(***************************************************************************)
\* the descriptors that list a dependency
WithDependencies ==
  { Str(id) : id \in { p \in DOMAIN Packages :
                         \/ Len(Packages[p].dependencies.packages) > 0
                         \/ Len(Packages[p].dependencies.sources) > 0 } }

C20_AllOrNothing ==
  \A id \in WithDependencies, build \in BOOLEAN :
    LET r == RegisterNow(id, build) IN
      /\ r.res.k = "err"
      /\ \A e \in 1..Len(r.log) : r.log[e] # <<"build", id.val>>
      /\ id.val \notin DOMAIN r.m.builders
      /\ id.val \notin DOMAIN r.m.modules
      /\ r.m.builders = builders
      /\ r.m.modules = modules

\* register has loaded a descriptor whose dependency does not exist and has
\* failed, storing nothing under the id
C20_Witness ==
  /\ last.op = "register"
  /\ last.args = << Str("depmissing"), TRUE >>
  /\ Loads(last.log, "depmissing") = 1
  /\ last.res.k = "err"
  /\ "depmissing" \notin DOMAIN builders
  /\ "depmissing" \notin DOMAIN modules

(***************************************************************************)
(* C21 Builder-only then built: for a source descriptor whose id has a     *)
(* Builder and no module (register(id, false) has run, and the caller may  *)
(* have injected into and built from the Builder it was given),            *)
(* register(id, true) invokes the Descriptor Loader for id again, stores a *)
(* new Builder under id in place of the old one, and stores and returns a  *)
(* module built from the new Builder: with the descriptor's settings and   *)
(* the dependencies resolved by this call, whatever the old Builder holds. *)
(***************************************************************************)
C21_BuilderOnlyThenBuilt ==
  \A id \in KeptIds :
    (id.val \in DOMAIN builders /\ id.val \notin DOMAIN modules) =>
      LET r == RegisterNow(id, TRUE)
          old == builders[id.val]
          new == r.m.builders[id.val]
      IN
        /\ r.res.k = "ok"
        /\ Loads(r.log, id.val) = 1
        /\ new.obj = nextObj
        /\ new.obj # old.obj
        /\ r.m.modules[id.val] = r.res.v
        /\ r.res.v.obj = new.obj + 1
        /\ BuiltFrom(r.res.v, new.factory, [type |-> "object", val |-> "{}"],
                     Packages[id.val].factorySettings)

\* register(id, true) has completed on an id whose descriptor was loaded
\* before, and has replaced the Builder made then
C21_Witness ==
  /\ Registered_(Str("builder"), TRUE)
  /\ ~ last.fresh
  /\ Loads(last.log, "builder") = 1
  /\ builders["builder"].obj = 2
  /\ modules["builder"].obj = 3
  /\ modules["builder"].dependencies = [type |-> "object", val |-> "{}"]
  /\ modules["builder"].settings = Settings("built-in")

(***************************************************************************)
(* C22 Referenced Builder is ensured (as claimed): when register(id) has   *)
(* resolved a descriptor that names the Builder R, for R a source          *)
(* descriptor or itself a descriptor that names a Builder, a Builder is    *)
(* stored under R and the module stored under id and returned is that      *)
(* Builder built with the factorySettings of id.                           *)
(***************************************************************************)
\* the ids of RefIds whose descriptor names a Builder
NamingIds == { id \in RefIds : Packages[id.val].source = "" /\ Packages[id.val].builder # "" }

C22_ReferencedBuilderEnsured ==
  \A id \in NamingIds :
    ( /\ last.op = "register"
      /\ last.args[1] = id
      /\ Loads(last.log, id.val) = 1 ) =>
      LET R == Packages[id.val].builder IN
        /\ R \in DOMAIN builders
        /\ last.res.k = "ok"
        /\ modules[id.val] = last.res.v
        /\ BuiltFrom(last.res.v, builders[R].factory, builders[R].dependencies,
                     Packages[id.val].factorySettings)

(***************************************************************************)
(* C23 Source cache: once import(sourcePath) has succeeded, import of the  *)
(* same path returns the source stored in the cache without invoking the   *)
(* Source Loader (even if the file can no longer be read) and changes      *)
(* nothing; an import that fails rejects with the error of import's catch  *)
(* and stores nothing in the cache; an import that succeeds through the    *)
(* loader stores what it returns.                                          *)
(***************************************************************************)
\* import(sourcePath) made now, on its own
ImportNow(sourcePath) == RunToEnd(Start(Registry, FImport(sourcePath)))

C23_SourceCache ==
  \A sourcePath \in ImportPaths :
    LET r == ImportNow(sourcePath) IN
      /\ sourcePath.val \in DOMAIN sources =>
           /\ r.res = [k |-> "ok", v |-> sources[sourcePath.val]]
           /\ r.log = <<>>
           /\ r.m = Registry
      /\ sourcePath.val \notin DOMAIN sources =>
           /\ r.log = << <<"import", sourcePath.val>> >>
           /\ r.res.k = "err" =>
                /\ r.res.v = Err("SourceImportError")
                /\ r.m = Registry
           /\ r.res.k = "ok" =>
                /\ r.m.sources = Put(sources, sourcePath.val, r.res.v)
                /\ r.res.v = SourceFiles[sourcePath.val]

\* an import has been answered from the cache while the file is unreadable
C23_Witness ==
  /\ last.op = "import"
  /\ last.args = << Str("/greeter.js") >>
  /\ "/greeter.js" \in down
  /\ last.log = <<>>
  /\ last.res = [k |-> "ok", v |-> sources["/greeter.js"]]

(***************************************************************************)
(* C24 Termination of registration: with loaders that always respond and   *)
(* descriptors whose builder references and package dependencies have no   *)
(* cycle, whenever register calls are in flight, they all complete in the  *)
(* end (each resolves or rejects).                                         *)
(***************************************************************************)
C24_Termination == (calls # EmptyBag) ~> (calls = EmptyBag)

\* both callers' registrations are over, the last to complete being that of
\* the descriptor with the longest chain of references
C24_Witness ==
  /\ begun = Cardinality(Callers)
  /\ calls = EmptyBag
  /\ last.op = "register"
  /\ last.args[1] = Str("chain")
  /\ last.res.k # "none"
  /\ Loads(last.log, "builder") = 1


(***************************************************************************)
(* C25  Failed registration is not memoized: after register(id) with      *)
(* build = true has failed at any stage (descriptor load, dependency      *)
(* resolution, source import or build), a later register(id) calls the    *)
(* Descriptor Loader for id again, and succeeds if the collaborators now  *)
(* succeed (every file is readable again and the factory does not throw). *)
(***************************************************************************)
CollaboratorsSucceed(id) ==
  /\ id.val \in DOMAIN Packages
  /\ Packages[id.val].source \in DOMAIN SourceFiles
  /\ SourceFiles[Packages[id.val].source].factory # "undefined"
  /\ \A i \in DOMAIN Packages[id.val].dependencies.packages :
       LET d == Packages[id.val].dependencies.packages[i]
       IN  d.type = "string" /\ d.val \in DOMAIN Packages

C25_FailedNotMemoized ==
  ( /\ last.op = "register"
    /\ last.args[2] = TRUE
    /\ last.res.k = "err" )
  => LET id    == last.args[1]
         later == RunToEnd(Start([Registry EXCEPT !.down = {}],
                                 FRegister(id, TRUE)))
     IN  /\ Loads(later.log, id.val) = 1
         /\ CollaboratorsSucceed(id) => later.res.k = "ok"


(***************************************************************************)
(* C26  Settings are not mixed across a shared Builder: however the        *)
(* registrations of packages that name the same Builder with different     *)
(* factorySettings interleave, the module stored under each package id is  *)
(* built by the shared factory with that package's own factorySettings.    *)
(***************************************************************************)
C26_SettingsNotMixed ==
  \A id \in SharedIds :
    id.val \in DOMAIN modules =>
      BuiltFrom(modules[id.val], "messageFactory",
                [type |-> "object", val |-> "{}"],
                Packages[id.val].factorySettings)

\* the two packages have been registered by calls that overlapped: the last
\* to complete had started to register the Builder itself, so the other had
\* stored none when this one looked for it
C26_Witness ==
  /\ calls = EmptyBag
  /\ {"fromB", "fromB2"} \subseteq DOMAIN modules
  /\ modules["fromB"].settings # modules["fromB2"].settings
  /\ last.op = "register"
  /\ last.args[1] \in { Str("fromB"), Str("fromB2") }
  /\ last.res.k = "ok"
  /\ Loads(last.log, "builder") = 1


(***************************************************************************)
(* C27  Loaded-set coverage: in every reachable state every id that is a   *)
(* key of builders is in packages (the set of loaded descriptors), and     *)
(* every key of modules other than those the constructor placed is in      *)
(* packages too.                                                           *)
(***************************************************************************)
C27_LoadedSetCoverage ==
  LET placed == DOMAIN ConstructedModules([defaultApp |-> defaultApp]) IN
  /\ DOMAIN builders \subseteq packages
  /\ (DOMAIN modules \ placed) \subseteq packages

\* a source package and a builder-reference package are registered, the
\* first with its Builder, while a call is still suspended
C27_Witness ==
  /\ calls # EmptyBag
  /\ "greeter" \in DOMAIN builders
  /\ "greeter" \in DOMAIN modules
  /\ "fromB" \in DOMAIN modules
  /\ {"greeter", "fromB", "builder"} \subseteq packages

====
